---- MODULE Spec2Model ----
(***************************************************************************)
(* Model of homework/extract_specific_columns.py: one run reads the truck  *)
(* event CSV with pandas.read_csv (usecols + dtype), writes the projection *)
(* with DataFrame.to_csv(index=False, float_format='%.6f'), reports on the *)
(* console and exits with 0 or 1.                                          *)
(*                                                                         *)
(* Text is modelled as sequences of one-character strings, so parsing and  *)
(* formatting are computed on characters and digits.                       *)
(***************************************************************************)
EXTENDS Integers, Sequences, FiniteSets, TLC

(***************************************************************************)
(* Bounds of the exploration.                                              *)
(***************************************************************************)
MaxRows == 2
MaxRuns == 2

(***************************************************************************)
(* Paths and column list of the script.                                    *)
(***************************************************************************)
input_file == "files/input/truck_event_text_partition.csv"
output_file == "files/output/specific-columns.csv"

columns_to_extract ==
    << "driverId", "truckId", "eventTime", "eventType", "longitude",
       "latitude", "driverName", "routeName", "eventDate" >>

dtype_mapping ==
    [ driverId |-> "int32", truckId |-> "int32", eventTime |-> "string",
      eventType |-> "category", longitude |-> "float32",
      latitude |-> "float32", driverName |-> "string",
      routeName |-> "string", eventDate |-> "string" ]

Range(s) == { s[i] : i \in DOMAIN s }

(***************************************************************************)
(* Characters and digits.                                                  *)
(***************************************************************************)
DigitChars == << "0", "1", "2", "3", "4", "5", "6", "7", "8", "9" >>

IsDigit(c) == c \in Range(DigitChars)

DigitVal(c) == CHOOSE d \in 0..9 : DigitChars[d + 1] = c

Pow2(n) == 2 ^ n

Pow10(n) == 10 ^ n

NatToChars[n \in Nat] ==
    IF n < 10 THEN << DigitChars[n + 1] >>
    ELSE Append(NatToChars[n \div 10], DigitChars[(n % 10) + 1])

PadDigits[n \in Nat, width \in Nat] ==
    IF width = 0 THEN << >>
    ELSE Append(PadDigits[n \div 10, width - 1], DigitChars[(n % 10) + 1])

(***************************************************************************)
(* Values read_csv treats as missing (its default na_values), as far as    *)
(* the sample inputs use them.                                             *)
(***************************************************************************)
NaTokens == { << >>, << "N", "A" >>, << "n", "a", "n" >> }

InfToken == << "i", "n", "f" >>

(***************************************************************************)
(* Splitting a numeric token into sign, integer digits, fraction digits.   *)
(***************************************************************************)
HasSign(tok) == Len(tok) > 0 /\ tok[1] \in { "-", "+" }

Unsigned(tok) == IF HasSign(tok) THEN Tail(tok) ELSE tok

DotPos(body) ==
    IF \E i \in DOMAIN body : body[i] = "."
    THEN CHOOSE i \in DOMAIN body :
             body[i] = "." /\ \A j \in 1..(i - 1) : body[j] # "."
    ELSE 0

IntPart(body) ==
    IF DotPos(body) = 0 THEN body ELSE SubSeq(body, 1, DotPos(body) - 1)

FracPart(body) ==
    IF DotPos(body) = 0 THEN << >>
    ELSE SubSeq(body, DotPos(body) + 1, Len(body))

AllDigits(s) == \A i \in DOMAIN s : IsDigit(s[i])

IsIntegerToken(tok) ==
    Len(Unsigned(tok)) > 0 /\ AllDigits(Unsigned(tok))

IsDecimalToken(tok) ==
    LET body == Unsigned(tok)
    IN  /\ AllDigits(IntPart(body))
        /\ AllDigits(FracPart(body))
        /\ Len(IntPart(body)) + Len(FracPart(body)) > 0

(***************************************************************************)
(* int32 column: digits are accumulated and the value must fit 32 bits.    *)
(***************************************************************************)
Int32Max == 2147483647

DigitsToNat[s \in Seq(Range(DigitChars)), acc \in Nat] ==
    IF s = << >> THEN acc
    ELSE IF acc > (Int32Max - DigitVal(Head(s))) \div 10 THEN -1
    ELSE DigitsToNat[Tail(s), acc * 10 + DigitVal(Head(s))]

ParseInt32(tok) ==
    IF ~IsIntegerToken(tok) THEN [ ok |-> FALSE ]
    ELSE LET mag == DigitsToNat[Unsigned(tok), 0]
         IN  IF mag < 0 THEN [ ok |-> FALSE ]
             ELSE [ ok |-> TRUE, kind |-> "int",
                    neg |-> (tok[1] = "-" /\ mag # 0), mag |-> mag ]

(***************************************************************************)
(* float32 column: the decimal num / 10^k is rounded to the nearest value  *)
(* m / 2^s with a 24-bit significand m (ties to even).  The operator is    *)
(* defined for 0 and for magnitudes in [2^-4, 2^24) with at most two       *)
(* fraction digits, which covers the sample inputs.                        *)
(***************************************************************************)
MantissaBits == 24

Normalize[num \in Nat, den \in Nat, s \in Nat] ==
    IF num < Pow2(MantissaBits - 1) * den
    THEN Normalize[2 * num, den, s + 1]
    ELSE [ num |-> num, s |-> s ]

RoundHalfEven(num, den) ==
    LET q == num \div den
        r == num % den
    IN  IF 2 * r > den \/ (2 * r = den /\ q % 2 = 1) THEN q + 1 ELSE q

ToFloat32[num \in Nat, k \in Nat] ==
    IF num = 0 THEN [ m |-> 0, s |-> 0 ]
    ELSE LET n == Normalize[num, Pow10(k), 0]
             m == RoundHalfEven(n.num, Pow10(k))
         IN  IF m = Pow2(MantissaBits)
             THEN [ m |-> Pow2(MantissaBits - 1), s |-> n.s - 1 ]
             ELSE [ m |-> m, s |-> n.s ]

ParseFloat32(tok) ==
    IF tok \in NaTokens THEN [ ok |-> TRUE, kind |-> "nan" ]
    ELSE IF Unsigned(tok) = InfToken
    THEN [ ok |-> TRUE, kind |-> "inf", neg |-> (tok[1] = "-") ]
    ELSE IF ~IsDecimalToken(tok) THEN [ ok |-> FALSE ]
    ELSE LET body == Unsigned(tok)
             k    == Len(FracPart(body))
             num  == DigitsToNat[IntPart(body) \o FracPart(body), 0]
             f    == ToFloat32[num, k]
         IN  [ ok |-> TRUE, kind |-> "float", neg |-> (tok[1] = "-"),
               m |-> f.m, s |-> f.s ]

(***************************************************************************)
(* string and category columns keep the text; missing markers become NA.   *)
(***************************************************************************)
ParseText(tok) ==
    IF tok \in NaTokens THEN [ ok |-> TRUE, kind |-> "nan" ]
    ELSE [ ok |-> TRUE, kind |-> "text", text |-> tok ]

ParseField(col, tok) ==
    CASE dtype_mapping[col] = "int32"   -> ParseInt32(tok)
      [] dtype_mapping[col] = "float32" -> ParseFloat32(tok)
      [] OTHER                          -> ParseText(tok)

(***************************************************************************)
(* to_csv rendering.  '%.6f' of the float32 value m / 2^s: six fraction    *)
(* digits by long division, rounded on the exact remainder.                *)
(***************************************************************************)
FloatDigits == 6

FracDigits[r \in Nat, den \in Nat, acc \in Nat, n \in Nat] ==
    IF n = 0 THEN [ acc |-> acc, r |-> r ]
    ELSE FracDigits[(r * 10) % den, den, acc * 10 + (r * 10) \div den, n - 1]

(* Faulty variant of FormatFloat: one fraction digit short ("%.5f"). *)
FormatFloatFiveDigits(v) ==
    LET den == Pow2(v.s)
        fd  == FracDigits[v.m % den, den, 0, FloatDigits - 1]
    IN  (IF v.neg THEN << "-" >> ELSE << >>)
        \o NatToChars[v.m \div den] \o << "." >>
        \o PadDigits[fd.acc, FloatDigits - 1]

FormatFloat(v) ==
    LET den  == Pow2(v.s)
        ip   == v.m \div den
        fd   == FracDigits[v.m % den, den, 0, FloatDigits]
        up   == 2 * fd.r > den \/ (2 * fd.r = den /\ fd.acc % 2 = 1)
        frac == IF up THEN fd.acc + 1 ELSE fd.acc
        ip2  == IF frac = Pow10(FloatDigits) THEN ip + 1 ELSE ip
        fr2  == IF frac = Pow10(FloatDigits) THEN 0 ELSE frac
    IN  (IF v.neg THEN << "-" >> ELSE << >>)
        \o NatToChars[ip2] \o << "." >> \o PadDigits[fr2, FloatDigits]

RenderField(v) ==
    CASE v.kind = "nan"   -> << >>
      [] v.kind = "inf"   -> (IF v.neg THEN << "-" >> ELSE << >>) \o InfToken
      [] v.kind = "int"   -> (IF v.neg THEN << "-" >> ELSE << >>)
                                 \o NatToChars[v.mag]
      [] v.kind = "float" -> FormatFloat(v)
      [] v.kind = "text"  -> v.text

(***************************************************************************)
(* Sample input material.  A header is the file's column order; a line is  *)
(* one data row of the file, its fields in header order.                   *)
(***************************************************************************)
ExtraColumn == "eventKey"

HeaderListed == << "eventKey" >> \o columns_to_extract

HeaderReordered ==
    << "truckId", "driverId", "eventTime", "eventType", "eventKey",
       "latitude", "longitude", "driverName", "routeName", "eventDate" >>

HeaderWithoutLatitude ==
    << "driverId", "truckId", "eventTime", "eventType", "longitude",
       "driverName", "routeName", "eventDate", "eventKey" >>

SampleHeaders == { HeaderListed, HeaderReordered, HeaderWithoutLatitude }

ExampleRow ==
    [ driverId   |-> << "1", "0" >>,
      truckId    |-> << "2", "0", "0" >>,
      eventTime  |-> << "5", "9", ":", "2", "1" >>,
      eventType  |-> << "N", "o", "r", "m", "a", "l" >>,
      longitude  |-> << "-", "9", "4", ".", "5" >>,
      latitude   |-> << "3", "9", ".", "1" >>,
      driverName |-> << "A", "l", "i", "c", "e" >>,
      routeName  |-> << "R", "1" >>,
      eventDate  |-> << "2", "0", "1", "6", "-", "0", "1", "-", "0", "1" >>,
      eventKey   |-> << "k" >>,
      malformed  |-> FALSE ]

ExactRow ==
    [ ExampleRow EXCEPT !.longitude = << "1", "2", ".", "3" >>,
                        !.latitude  = << "7", ".", "2", "5" >> ]

MissingCoordRow ==
    [ ExampleRow EXCEPT !.longitude = << >>,
                        !.latitude  = << "3", "9" >> ]

InfiniteCoordRow ==
    [ ExampleRow EXCEPT !.longitude = << "-", "i", "n", "f" >>,
                        !.latitude  = << "0", ".", "1" >> ]

BadIdRow == [ ExampleRow EXCEPT !.driverId = << >> ]

WideIdRow ==
    [ ExampleRow EXCEPT
        !.truckId = << "2", "1", "4", "7", "4", "8", "3", "6", "4", "8" >> ]

BrokenRow == [ ExampleRow EXCEPT !.malformed = TRUE ]

SampleRows ==
    { ExampleRow, ExactRow, MissingCoordRow, InfiniteCoordRow, BadIdRow,
      WideIdRow, BrokenRow }

Line(header, row) ==
    [ fields    |-> [ i \in 1..Len(header) |-> row[header[i]] ],
      malformed |-> row.malformed ]

RowSeqs == UNION { [ 1..n -> SampleRows ] : n \in 0..MaxRows }

InputFiles ==
    { [ state |-> "absent" ], [ state |-> "unreadable" ] }
    \cup { [ state  |-> "file", header |-> h,
             lines  |-> [ i \in 1..Len(rs) |-> Line(h, rs[i]) ] ] :
           h \in SampleHeaders, rs \in RowSeqs }

(***************************************************************************)
(* Files on disk and the DataFrame.                                        *)
(***************************************************************************)
NoFile == [ exists |-> FALSE ]

StaleOutput ==
    [ exists |-> TRUE, complete |-> TRUE, header |-> << "stale" >>,
      lines |-> << >> ]

NoFrame == [ loaded |-> FALSE ]

Position(seq, x) == CHOOSE i \in DOMAIN seq : seq[i] = x

IsWanted(col) == col \in Range(columns_to_extract)

(***************************************************************************)
(* read_csv(input_file, usecols=columns_to_extract, dtype=dtype_mapping):  *)
(* the exception it raises, or "none".                                     *)
(***************************************************************************)
ReadError(file) ==
    IF file.state = "absent" THEN "FileNotFoundError"
    ELSE IF file.state = "unreadable" THEN "PermissionError"
    ELSE IF ~(Range(columns_to_extract) \subseteq Range(file.header))
    THEN "ValueError"
    ELSE IF \E i \in DOMAIN file.lines : file.lines[i].malformed
    THEN "ParserError"
    ELSE IF \E i \in DOMAIN file.lines : \E j \in DOMAIN file.header :
                /\ IsWanted(file.header[j])
                /\ ~ParseField(file.header[j], file.lines[i].fields[j]).ok
    THEN "ValueError"
    ELSE "none"

(***************************************************************************)
(* The frame read_csv returns: the wanted columns in the order of the      *)
(* file's header, one row per line, every field parsed to its dtype.       *)
(***************************************************************************)
ReadFrame(file) ==
    LET cols == SelectSeq(file.header, IsWanted)
    IN  [ loaded  |-> TRUE,
          columns |-> cols,
          rows    |-> [ i \in DOMAIN file.lines |->
                          [ c \in Range(cols) |->
                              ParseField(c,
                                file.lines[i].fields[Position(file.header, c)])
                          ] ] ]

(***************************************************************************)
(* to_csv(output_file, index=False, float_format='%.6f'): header line of   *)
(* the frame's columns, then one line per row, no index field.             *)
(***************************************************************************)
WriteCsv(frame) ==
    [ exists   |-> TRUE,
      complete |-> TRUE,
      header   |-> frame.columns,
      lines    |-> [ i \in DOMAIN frame.rows |->
                       [ j \in DOMAIN frame.columns |->
                           RenderField(frame.rows[i][frame.columns[j]]) ] ] ]

(***************************************************************************)
(* State.                                                                  *)
(*   inputFile, dirState, outFile : the file system (input path, output    *)
(*                                  directory, output path)                *)
(*   df, console                  : the frame and what was printed         *)
(*   pc, exc, result, exitCode    : position in the script, the exception  *)
(*                                  in flight, the returned value, exit    *)
(*   run, reads, writes, writeOk, outAtStart, prevResult : history         *)
(***************************************************************************)
VARIABLES inputFile, dirState, outFile, df, console, pc, exc, result,
          exitCode, run, reads, writes, writeOk, outAtStart, prevResult

vars == << inputFile, dirState, outFile, df, console, pc, exc, result,
           exitCode, run, reads, writes, writeOk, outAtStart, prevResult >>

DiskStates ==
    { << "absent", NoFile >>, << "dir", NoFile >>, << "dir", StaleOutput >>,
      << "blocked", NoFile >> }

Init ==
    /\ inputFile \in InputFiles
    /\ \E d \in DiskStates : dirState = d[1] /\ outFile = d[2]
    /\ df = NoFrame
    /\ console = << >>
    /\ pc = "start"
    /\ exc = "none"
    /\ result = "none"
    /\ exitCode = -1
    /\ run = 1
    /\ reads = 0
    /\ writes = 0
    /\ writeOk = FALSE
    /\ outAtStart = outFile
    /\ prevResult = "none"

(***************************************************************************)
(* output_file.parent.mkdir(parents=True, exist_ok=True), before the try.  *)
(***************************************************************************)
MkdirOk ==
    /\ pc = "start"
    /\ dirState # "blocked"
    /\ dirState' = "dir"
    /\ pc' = "try"
    /\ UNCHANGED << inputFile, outFile, df, console, exc, result, exitCode,
                    run, reads, writes, writeOk, outAtStart, prevResult >>

MkdirRaise ==
    /\ pc = "start"
    /\ dirState = "blocked"
    /\ exc' = "FileExistsError"
    /\ pc' = "raised"
    /\ UNCHANGED << inputFile, dirState, outFile, df, console, result,
                    exitCode, run, reads, writes, writeOk, outAtStart,
                    prevResult >>

(***************************************************************************)
(* The read step of the try block and its report.                          *)
(***************************************************************************)
ReadCsv ==
    /\ pc = "try"
    /\ ReadError(inputFile) = "none"
    /\ df' = ReadFrame(inputFile)
    /\ reads' = reads + 1
    /\ console' = console \o
         << [ kind |-> "reading" ],
            [ kind |-> "read", rows |-> Len(df'.rows),
              cols |-> Len(df'.columns) ],
            [ kind |-> "memory" ],
            [ kind |-> "dtypes",
              cols |-> [ j \in DOMAIN df'.columns |->
                           << df'.columns[j],
                              dtype_mapping[df'.columns[j]] >> ] ] >>
    /\ pc' = "loaded"
    /\ UNCHANGED << inputFile, dirState, outFile, exc, result, exitCode, run,
                    writes, writeOk, outAtStart, prevResult >>

(* Faulty variant of ReadCsvRaise: the output was opened for writing       *)
(* before the read, so a failed read leaves it truncated.                  *)
ReadCsvRaiseTruncating ==
    /\ pc = "try"
    /\ ReadError(inputFile) # "none"
    /\ exc' = ReadError(inputFile)
    /\ reads' = reads + 1
    /\ console' = Append(console, [ kind |-> "reading" ])
    /\ outFile' = [ exists |-> TRUE, complete |-> FALSE,
                    header |-> << >>, lines |-> << >> ]
    /\ pc' = "except"
    /\ UNCHANGED << inputFile, dirState, df, result, exitCode, run,
                    writes, writeOk, outAtStart, prevResult >>

ReadCsvRaise ==
    /\ pc = "try"
    /\ ReadError(inputFile) # "none"
    /\ exc' = ReadError(inputFile)
    /\ reads' = reads + 1
    /\ console' = Append(console, [ kind |-> "reading" ])
    /\ pc' = "except"
    /\ UNCHANGED << inputFile, dirState, outFile, df, result, exitCode, run,
                    writes, writeOk, outAtStart, prevResult >>

(* Faulty variant of ToCsv: the file is opened in append mode.             *)
ToCsvAppend ==
    /\ pc = "loaded"
    /\ outFile' =
          IF outFile.exists
          THEN [ WriteCsv(df) EXCEPT
                   !.header = outFile.header,
                   !.lines = outFile.lines \o << WriteCsv(df).header >>
                                 \o WriteCsv(df).lines ]
          ELSE WriteCsv(df)
    /\ writes' = writes + 1
    /\ writeOk' = TRUE
    /\ console' = console \o
         << [ kind |-> "saving" ],
            [ kind |-> "saved", path |-> output_file ],
            [ kind |-> "summary", rows |-> Len(df.rows),
              cols |-> Len(df.columns) ],
            [ kind |-> "preview",
              rows |-> IF Len(df.rows) < 3 THEN Len(df.rows) ELSE 3 ] >>
    /\ result' = "True"
    /\ pc' = "returned"
    /\ UNCHANGED << inputFile, dirState, df, exc, exitCode, run, reads,
                    outAtStart, prevResult >>

(***************************************************************************)
(* The write step, the success report and return True.                     *)
(***************************************************************************)
ToCsv ==
    /\ pc = "loaded"
    /\ outFile' = WriteCsv(df)
    /\ writes' = writes + 1
    /\ writeOk' = TRUE
    /\ console' = console \o
         << [ kind |-> "saving" ],
            [ kind |-> "saved", path |-> output_file ],
            [ kind |-> "summary", rows |-> Len(df.rows),
              cols |-> Len(df.columns) ],
            [ kind |-> "preview",
              rows |-> IF Len(df.rows) < 3 THEN Len(df.rows) ELSE 3 ] >>
    /\ result' = "True"
    /\ pc' = "returned"
    /\ UNCHANGED << inputFile, dirState, df, exc, exitCode, run, reads,
                    outAtStart, prevResult >>

(***************************************************************************)
(* An I/O fault during to_csv: the file could not be opened (left as it    *)
(* was) or the write stopped after some of the lines.                      *)
(***************************************************************************)
ToCsvRaise ==
    /\ pc = "loaded"
    /\ \/ outFile' = outFile
       \/ \E n \in 0..Len(df.rows) :
            outFile' = [ WriteCsv(df) EXCEPT
                           !.complete = FALSE,
                           !.lines = SubSeq(WriteCsv(df).lines, 1, n) ]
    /\ writes' = writes + 1
    /\ exc' = "OSError"
    /\ console' = Append(console, [ kind |-> "saving" ])
    /\ pc' = "except"
    /\ UNCHANGED << inputFile, dirState, df, result, exitCode, run, reads,
                    writeOk, outAtStart, prevResult >>

(***************************************************************************)
(* except FileNotFoundError / except Exception.                            *)
(***************************************************************************)
HandleFileNotFound ==
    /\ pc = "except"
    /\ exc = "FileNotFoundError"
    /\ console' = Append(console, [ kind |-> "not_found",
                                    path |-> input_file ])
    /\ result' = "False"
    /\ pc' = "returned"
    /\ UNCHANGED << inputFile, dirState, outFile, df, exc, exitCode, run,
                    reads, writes, writeOk, outAtStart, prevResult >>

(* Faulty variant of HandleException: a failed read is tried once more.    *)
HandleExceptionRetry ==
    /\ pc = "except"
    /\ exc # "FileNotFoundError"
    /\ console' = Append(console, [ kind |-> "processing_error",
                                    cause |-> exc ])
    /\ IF reads = 1 /\ writes = 0
       THEN pc' = "try" /\ UNCHANGED result
       ELSE pc' = "returned" /\ result' = "False"
    /\ UNCHANGED << inputFile, dirState, outFile, df, exc, exitCode, run,
                    reads, writes, writeOk, outAtStart, prevResult >>

HandleException ==
    /\ pc = "except"
    /\ exc # "FileNotFoundError"
    /\ console' = Append(console, [ kind |-> "processing_error",
                                    cause |-> exc ])
    /\ result' = "False"
    /\ pc' = "returned"
    /\ UNCHANGED << inputFile, dirState, outFile, df, exc, exitCode, run,
                    reads, writes, writeOk, outAtStart, prevResult >>

(***************************************************************************)
(* __main__: exit(0 if success else 1); an exception that left the         *)
(* function ends the interpreter with status 1.                            *)
(***************************************************************************)
(* Faulty variant of MainExit: exit(success), the status of True being 1.  *)
MainExitBool ==
    /\ pc = "returned"
    /\ exitCode' = IF result = "True" THEN 1 ELSE 0
    /\ pc' = "exited"
    /\ UNCHANGED << inputFile, dirState, outFile, df, console, exc, result,
                    run, reads, writes, writeOk, outAtStart, prevResult >>

MainExit ==
    /\ pc = "returned"
    /\ exitCode' = IF result = "True" THEN 0 ELSE 1
    /\ pc' = "exited"
    /\ UNCHANGED << inputFile, dirState, outFile, df, console, exc, result,
                    run, reads, writes, writeOk, outAtStart, prevResult >>

Uncaught ==
    /\ pc = "raised"
    /\ exitCode' = 1
    /\ pc' = "exited"
    /\ UNCHANGED << inputFile, dirState, outFile, df, console, exc, result,
                    run, reads, writes, writeOk, outAtStart, prevResult >>

(***************************************************************************)
(* The script is started again on the same, unchanged file system.         *)
(***************************************************************************)
Rerun ==
    /\ pc = "exited"
    /\ run < MaxRuns
    /\ run' = run + 1
    /\ prevResult' = result
    /\ outAtStart' = outFile
    /\ df' = NoFrame
    /\ console' = << >>
    /\ pc' = "start"
    /\ exc' = "none"
    /\ result' = "none"
    /\ exitCode' = -1
    /\ reads' = 0
    /\ writes' = 0
    /\ writeOk' = FALSE
    /\ UNCHANGED << inputFile, dirState, outFile >>

Next ==
    \/ MkdirOk
    \/ MkdirRaise
    \/ ReadCsv
    \/ ReadCsvRaise
    \/ ToCsv
    \/ ToCsvRaise
    \/ HandleFileNotFound
    \/ HandleException
    \/ MainExit
    \/ Uncaught
    \/ Rerun

Spec == Init /\ [][Next]_vars

FairSpec == Spec /\ WF_vars(Next)

TypeOK ==
    /\ pc \in { "start", "try", "loaded", "except", "returned", "raised",
                "exited" }
    /\ result \in { "none", "True", "False" }
    /\ exitCode \in { -1, 0, 1 }
    /\ run \in 1..MaxRuns

(***************************************************************************)
(* Vocabulary of the properties.                                           *)
(***************************************************************************)
RunOver == pc = "exited"

Succeeded == RunOver /\ result = "True"

Printed(kind) == \E i \in DOMAIN console : console[i].kind = kind

InField(i, col) ==
    inputFile.lines[i].fields[Position(inputFile.header, col)]

OutField(i, col) == outFile.lines[i][Position(outFile.header, col)]

CoordColumns == { "longitude", "latitude" }

SixDecimals(f) ==
    LET body == Unsigned(f)
    IN  /\ Len(body) >= FloatDigits + 2
        /\ body[Len(body) - FloatDigits] = "."
        /\ \A i \in DOMAIN body :
              i # Len(body) - FloatDigits => IsDigit(body[i])

(***************************************************************************)
(* C1: after a successful run the output header is the nine names in the   *)
(* listed order (driverId first, no index column), whatever the column     *)
(* order of the input file, and the output has one line per input line.    *)
(***************************************************************************)
C1_HeaderInListedOrder ==
    Succeeded =>
        /\ outFile.header = columns_to_extract
        /\ Len(outFile.lines) = Len(inputFile.lines)

(***************************************************************************)
(* C2: when the input path does not exist, the function returns False,     *)
(* the not-found message naming the input path is printed and the output   *)
(* file is neither created nor modified.                                   *)
(***************************************************************************)
C2_MissingInputReturnsFalse ==
    (RunOver /\ inputFile.state = "absent") =>
        /\ result = "False"
        /\ \E i \in DOMAIN console :
              console[i] = [ kind |-> "not_found", path |-> input_file ]
        /\ outFile = outAtStart

(***************************************************************************)
(* C3: when the input file exists but its header lacks a required column,  *)
(* the generic error message is printed, the function returns False and    *)
(* no output file is written.                                              *)
(***************************************************************************)
C3_MissingColumnIsProcessingError ==
    ( /\ RunOver
      /\ inputFile.state = "file"
      /\ ~(Range(columns_to_extract) \subseteq Range(inputFile.header)) ) =>
        /\ result = "False"
        /\ Printed("processing_error")
        /\ outFile = outAtStart

(***************************************************************************)
(* C4: every failure of a run, the creation of the output directory        *)
(* included, is caught, printed as a message and returned as False; no     *)
(* exception leaves the function.                                          *)
(***************************************************************************)
C4_EveryFailureCaught ==
    /\ pc # "raised"
    /\ (RunOver /\ exc # "none") =>
          /\ result = "False"
          /\ Printed("not_found") \/ Printed("processing_error")

(***************************************************************************)
(* C5: the exit code is 0 exactly when the read and the write both         *)
(* succeeded, it is 1 on every handled failure, and it is never anything   *)
(* else.                                                                   *)
(***************************************************************************)
C5_ExitCode ==
    RunOver =>
        /\ exitCode \in { 0, 1 }
        /\ exitCode = 0 <=> (df.loaded /\ writeOk)
        /\ result = "False" => exitCode = 1

C5_Witness ==
    RunOver /\ exitCode = 1 /\ df.loaded /\ writes = 1 /\ ~writeOk

(***************************************************************************)
(* C6 as stated: after a successful run every longitude and latitude       *)
(* field of every line has exactly six digits after the decimal point,     *)
(* also when the input value is absent.                                    *)
(***************************************************************************)
C6_AllCoordsSixDecimals ==
    Succeeded =>
        \A i \in DOMAIN outFile.lines : \A c \in CoordColumns :
            SixDecimals(OutField(i, c))

(***************************************************************************)
(* C6 amended: after a successful run every longitude and latitude field   *)
(* that holds a finite number has exactly six digits after the decimal     *)
(* point, whatever the precision of the input; a missing value is written  *)
(* as an empty field and an infinite one as inf.                           *)
(***************************************************************************)
C6_FiniteCoordsSixDecimals ==
    Succeeded =>
        \A i \in DOMAIN outFile.lines : \A c \in CoordColumns :
            /\ df.rows[i][c].kind = "float" => SixDecimals(OutField(i, c))
            /\ df.rows[i][c].kind = "nan" => OutField(i, c) = << >>
            /\ df.rows[i][c].kind = "inf" => Unsigned(OutField(i, c)) = InfToken

C6_Witness ==
    /\ Succeeded
    /\ \E i \in DOMAIN outFile.lines :
          /\ InField(i, "longitude") = << "1", "2", ".", "3" >>
          /\ OutField(i, "longitude") =
                << "1", "2", ".", "3", "0", "0", "0", "0", "0" >>
          /\ InField(i, "latitude") = << "7", ".", "2", "5" >>

(***************************************************************************)
(* C7: an input line with longitude -94.5 and latitude 39.1 is written     *)
(* with longitude -94.500000 and latitude 39.100000, its other seven       *)
(* fields unchanged.                                                       *)
(***************************************************************************)
C7_ExampleRowPreserved ==
    Succeeded =>
        \A i \in DOMAIN outFile.lines :
            (\A c \in Range(columns_to_extract) : InField(i, c) = ExampleRow[c])
            =>
            /\ OutField(i, "longitude") =
                  << "-", "9", "4", ".", "5", "0", "0", "0", "0", "0" >>
            /\ OutField(i, "latitude") =
                  << "3", "9", ".", "1", "0", "0", "0", "0", "0" >>
            /\ \A c \in Range(columns_to_extract) \ CoordColumns :
                  OutField(i, c) = InField(i, c)

(***************************************************************************)
(* C8: when a run that follows a successful run on the same input ends,    *)
(* it has succeeded too unless its write met an I/O fault (the existing    *)
(* output directory is no error), and on success the output file has the   *)
(* very content the previous run left.                                     *)
(***************************************************************************)
C8_SecondRunSameOutput ==
    (RunOver /\ run >= 2 /\ prevResult = "True") =>
        /\ result = "True" \/ (writes = 1 /\ ~writeOk)
        /\ result = "True" => outFile = outAtStart

C8_Witness ==
    /\ RunOver
    /\ run >= 2
    /\ prevResult = "True"
    /\ result = "True"
    /\ Len(outFile.lines) > 0
    /\ outFile = outAtStart

(***************************************************************************)
(* C9: the write starts only after the read has succeeded, and as long as  *)
(* no write has started (in particular at the end of a run whose read      *)
(* failed) the output file is exactly as it was before the run.            *)
(***************************************************************************)
C9_WriteOnlyAfterRead ==
    /\ writes > 0 => (df.loaded /\ reads = 1)
    /\ writes = 0 => outFile = outAtStart

C9_Witness ==
    /\ RunOver
    /\ reads = 1
    /\ ~df.loaded
    /\ exc = "ValueError"
    /\ outAtStart = StaleOutput
    /\ outFile = StaleOutput

(***************************************************************************)
(* C10: in every run the input is read at most once and the output written *)
(* at most once; once a step has failed no further read or write happens   *)
(* in that run and the run ends in failure; every run ends.                *)
(***************************************************************************)
C10_NoRetryAndTermination ==
    /\ [](reads <= 1 /\ writes <= 1)
    /\ [][(exc # "none" /\ run' = run) =>
             (reads' = reads /\ writes' = writes)]_vars
    /\ []((RunOver /\ exc # "none") => (exitCode = 1 /\ result # "True"))
    /\ (pc = "start") ~> (RunOver /\ exitCode \in { 0, 1 })

C10_Witness ==
    RunOver /\ exc = "OSError" /\ reads = 1 /\ writes = 1 /\ exitCode = 1

====
